---- MODULE Spec2Model ----
(***************************************************************************)
(* Model of the SwapContract escrow (src/lib.rs): the storage struct       *)
(* SwapContract, its three messages initiate_swap, accept_swap and         *)
(* cancel_swap, and the reentrancy guard.                                  *)
(*                                                                         *)
(* A message that reaches env().transfer is suspended there as a frame on  *)
(* `stack`.  While it is suspended the recipient of the transfer may call  *)
(* any message of the contract, on the same storage; the host then lets    *)
(* the transfer succeed or fail and the message goes on.  A message that   *)
(* returns before any transfer is one step.                                *)
(*                                                                         *)
(* The event log keeps every event by kind and topic (swap_id).  The id    *)
(* counter has the range 0..U32Max, scaled down from u32.  `last` records  *)
(* what the step just taken returned.                                      *)
(*                                                                         *)
(* `balance` is what the contract holds for certain: the value attached to *)
(* a payable message is added when the message starts, a transfer takes    *)
(* its amount and needs it to be there, and what a message that returns an *)
(* error had brought and not passed on is not counted (the host may hand   *)
(* it back to the caller).                                                 *)
(***************************************************************************)
EXTENDS Integers, Sequences, FiniteSets, Bags, TLC

VARIABLES swaps, next_swap_id, reentrancy_guard, events, stack, last, balance

vars == <<swaps, next_swap_id, reentrancy_guard, events, stack, last, balance>>

\* ---------------------------------------------------------------- bounds
\* the largest value of the id counter: u32::MAX of next_swap_id, scaled down so
\* that the whole range of the counter, its exhaustion included, is explored
U32Max == 2
\* messages suspended in a transfer at the same time
MaxDepth == 2

\* AccountId values.  The parties of swaps, each as initiator and as counterparty
\* (of the other or of itself), and one more caller that is party to none
Parties == {"alice", "bob"}
Accounts == Parties \cup {"charlie"}
\* value attached to initiate_swap: none, or a deposit
Deposits == {0, 2}
\* counterparty_asset asked by a proposal (different from the deposit)
Required == {1}
\* value attached to accept_swap: less than, equal to and more than the amount asked
Attached == {0, 1, 2}
\* ids a caller may name: every id the counter can issue and one it never issues
SwapIds == 0..U32Max

\* ---------------------------------------------------------------- data
Swap(initiator, counterparty, initiator_asset, counterparty_asset) ==
    [initiator |-> initiator, counterparty |-> counterparty,
     initiator_asset |-> initiator_asset, counterparty_asset |-> counterparty_asset]

Error == {"SwapNotFound", "NotAuthorized", "InsufficientInitiatorBalance",
          "InsufficientCounterpartyBalance", "SwapIdOverflow", "Reentrancy"}

\* the events, each with its topic; the log keeps how often each was emitted
SwapInitiated(swap_id) == [kind |-> "SwapInitiated", swap_id |-> swap_id]

SwapAccepted(swap_id) == [kind |-> "SwapAccepted", swap_id |-> swap_id]

SwapCancelled(swap_id) == [kind |-> "SwapCancelled", swap_id |-> swap_id]

emit_event(log, event) == log (+) SetToBag({event})

\* Mapping::insert and Mapping::remove on the id -> Swap mapping
MapInsert(m, k, v) == [x \in (DOMAIN m) \cup {k} |-> IF x = k THEN v ELSE m[x]]

MapRemove(m, k) == [x \in (DOMAIN m) \ {k} |-> m[x]]

\* what the step just taken returned: the message, the id it named, its result,
\* the id it returned, the transfers it made, and whether the step before it
\* was a call turned away by the guard too ("none": no message returned)
NoReturn ==
    [op |-> "none", swap_id |-> -1, res |-> "", ret |-> -1, sent |-> <<>>,
     again |-> FALSE]

Returned(op, swap_id, res, ret, sent) ==
    [op |-> op, swap_id |-> swap_id, res |-> res, ret |-> ret, sent |-> sent,
     again |-> res = "Reentrancy" /\ last.res = "Reentrancy"]

\* ---------------------------------------------------------------- helpers of the contract
\* variant: the guard lets every call in
enter_reentrancy_guard_open(guard) == [res |-> "Ok", guard |-> TRUE]

\* variant: the guard is tested but never set
enter_reentrancy_guard_unset(guard) ==
    IF guard THEN [res |-> "Reentrancy", guard |-> guard]
    ELSE [res |-> "Ok", guard |-> guard]

enter_reentrancy_guard(guard) ==
    IF guard THEN [res |-> "Reentrancy", guard |-> guard]
    ELSE [res |-> "Ok", guard |-> TRUE]

\* variant: the guard is not released
exit_reentrancy_guard_stuck(guard) == guard

exit_reentrancy_guard(guard) == FALSE

\* variant: the result of the transfer is dropped
transfer_funds_unchecked(host_ok) == "Ok"

\* env().transfer(..).map_err(|_| InsufficientCounterpartyBalance)
transfer_funds(host_ok) ==
    IF host_ok THEN "Ok" ELSE "InsufficientCounterpartyBalance"

\* variant: a deposit of zero is let through
initiate_swap_checks_any(initiator_asset) == "Ok"

\* the validation of the initiator's deposit in initiate_swap
initiate_swap_checks(initiator_asset) ==
    IF initiator_asset = 0 THEN "InsufficientInitiatorBalance" ELSE "Ok"

\* variant: the counter is written back without the increment
checked_add_id_same(swap_id) == [res |-> "Ok", val |-> swap_id]

\* variant: the increment wraps around
checked_add_id_wrapping(swap_id) ==
    IF swap_id + 1 > U32Max THEN [res |-> "Ok", val |-> 0]
    ELSE [res |-> "Ok", val |-> swap_id + 1]

\* swap_id.checked_add(1).ok_or(SwapIdOverflow)
checked_add_id(swap_id) ==
    IF swap_id + 1 > U32Max THEN [res |-> "SwapIdOverflow", val |-> swap_id]
    ELSE [res |-> "Ok", val |-> swap_id + 1]

\* variant: no authorization check
accept_swap_checks_noauth(m, swap_id, caller, transferred) ==
    IF swap_id \notin DOMAIN m THEN "SwapNotFound"
    ELSE IF transferred # m[swap_id].counterparty_asset
         THEN "InsufficientCounterpartyBalance"
    ELSE "Ok"

\* variant: a value above the amount asked passes
accept_swap_checks_atleast(m, swap_id, caller, transferred) ==
    IF swap_id \notin DOMAIN m THEN "SwapNotFound"
    ELSE IF caller # m[swap_id].counterparty THEN "NotAuthorized"
    ELSE IF transferred < m[swap_id].counterparty_asset
         THEN "InsufficientCounterpartyBalance"
    ELSE "Ok"

\* variant: the deposit is validated before the caller
accept_swap_checks_value_first(m, swap_id, caller, transferred) ==
    IF swap_id \notin DOMAIN m THEN "SwapNotFound"
    ELSE IF transferred # m[swap_id].counterparty_asset
         THEN "InsufficientCounterpartyBalance"
    ELSE IF caller # m[swap_id].counterparty THEN "NotAuthorized"
    ELSE "Ok"

\* the checks of accept_swap's closure before its first transfer
accept_swap_checks(m, swap_id, caller, transferred) ==
    IF swap_id \notin DOMAIN m THEN "SwapNotFound"
    ELSE IF caller # m[swap_id].counterparty THEN "NotAuthorized"
    ELSE IF transferred # m[swap_id].counterparty_asset
         THEN "InsufficientCounterpartyBalance"
    ELSE "Ok"

\* variant: either party may cancel
cancel_swap_checks_either(m, swap_id, caller) ==
    IF swap_id \notin DOMAIN m THEN "SwapNotFound"
    ELSE IF caller # m[swap_id].initiator /\ caller # m[swap_id].counterparty
         THEN "NotAuthorized"
    ELSE "Ok"

\* the checks of cancel_swap's closure before its transfer
cancel_swap_checks(m, swap_id, caller) ==
    IF swap_id \notin DOMAIN m THEN "SwapNotFound"
    ELSE IF caller # m[swap_id].initiator THEN "NotAuthorized"
    ELSE "Ok"

\* variant: each party gets its own asset back
accept_swap_transfers_crossed(swap, transferred) ==
    << [to |-> swap.initiator, amount |-> swap.initiator_asset],
       [to |-> swap.counterparty, amount |-> transferred] >>

\* the transfers of accept_swap, in order
accept_swap_transfers(swap, transferred) ==
    << [to |-> swap.initiator, amount |-> transferred],
       [to |-> swap.counterparty, amount |-> swap.initiator_asset] >>

\* the transfer of cancel_swap
cancel_swap_transfers(swap) ==
    << [to |-> swap.initiator, amount |-> swap.initiator_asset] >>

\* variant: the Swap is left in the mapping
cancel_swap_cleanup_kept(m, swap_id) == m

\* variant: accept_swap leaves the Swap in the mapping
accept_swap_cleanup_kept(m, swap_id) == m

\* variant: accept_swap empties the mapping
accept_swap_cleanup_clear(m, swap_id) == << >>

\* variant: cancel_swap empties the mapping
cancel_swap_cleanup_clear(m, swap_id) == << >>

\* the storage write that follows a message's last transfer
accept_swap_cleanup(m, swap_id) == MapRemove(m, swap_id)

cancel_swap_cleanup(m, swap_id) == MapRemove(m, swap_id)

emit_swap_accepted(log, swap_id) == emit_event(log, SwapAccepted(swap_id))

emit_swap_cancelled(log, swap_id) == emit_event(log, SwapCancelled(swap_id))

emit_swap_initiated(log, swap_id) == emit_event(log, SwapInitiated(swap_id))

\* ---------------------------------------------------------------- funds
RECURSIVE SumAmounts(_)
\* the total moved by a sequence of transfers
SumAmounts(sent) ==
    IF sent = << >> THEN 0 ELSE sent[1].amount + SumAmounts(Tail(sent))

\* what is left of the value a message brought after the transfers it made
Unspent(transferred, sent) ==
    IF transferred > SumAmounts(sent) THEN transferred - SumAmounts(sent) ELSE 0

\* ---------------------------------------------------------------- call context
\* the messages suspended in env().transfer, outermost first
Depth == Len(stack)

\* a message suspended in a transfer: its arguments, the Swap it read, the
\* transfers it makes and those made so far, and the guard as it was on entry
Frame(op, swap_id, caller, transferred, swap, todo, guard_before) ==
    [op |-> op, swap_id |-> swap_id, caller |-> caller, transferred |-> transferred,
     swap |-> swap, todo |-> todo, sent |-> <<>>,
     guard_before |-> guard_before]

\* ---------------------------------------------------------------- Init
Init ==
    /\ swaps = << >>
    /\ next_swap_id = 0
    /\ reentrancy_guard = FALSE
    /\ events = EmptyBag
    /\ stack = << >>
    /\ last = NoReturn
    /\ balance = 0

\* ---------------------------------------------------------------- messages
\* called from outside, or by the recipient of the transfer a message is suspended in
initiate_swap(caller, initiator_asset, counterparty, counterparty_asset) ==
    /\ IF initiate_swap_checks(initiator_asset) # "Ok"
       THEN /\ last' = Returned("initiate_swap", -1,
                                initiate_swap_checks(initiator_asset), -1, <<>>)
            /\ UNCHANGED <<swaps, next_swap_id, events, balance>>
       ELSE LET swap_id == next_swap_id
                added == checked_add_id(swap_id)
                swap == Swap(caller, counterparty, initiator_asset, counterparty_asset)
            IN IF added.res # "Ok"
               THEN /\ last' = Returned("initiate_swap", -1, added.res, -1, <<>>)
                    /\ UNCHANGED <<swaps, next_swap_id, events, balance>>
               ELSE /\ next_swap_id' = added.val
                    /\ swaps' = MapInsert(swaps, swap_id, swap)
                    /\ events' = emit_swap_initiated(events, swap_id)
                    /\ last' = Returned("initiate_swap", -1, "Ok", swap_id, <<>>)
                    /\ balance' = balance + initiator_asset
    /\ UNCHANGED <<reentrancy_guard, stack>>

accept_swap(swap_id, caller, transferred) ==
    /\ LET entered == enter_reentrancy_guard(reentrancy_guard)
           checked == accept_swap_checks(swaps, swap_id, caller, transferred)
       IN IF entered.res # "Ok"
          THEN /\ last' = Returned("accept_swap", swap_id, entered.res, -1, <<>>)
               /\ stack' = stack
               /\ reentrancy_guard' = entered.guard
               /\ balance' = balance
          ELSE IF checked # "Ok"
          THEN /\ last' = Returned("accept_swap", swap_id, checked, -1, <<>>)
               /\ stack' = stack
               /\ reentrancy_guard' = exit_reentrancy_guard(entered.guard)
               /\ balance' = balance
          ELSE /\ Depth < MaxDepth
               /\ last' = NoReturn
               /\ stack' = Append(stack,
                                  Frame("accept_swap", swap_id, caller, transferred,
                                        swaps[swap_id],
                                        accept_swap_transfers(swaps[swap_id], transferred),
                                        reentrancy_guard))
               /\ reentrancy_guard' = entered.guard
               /\ balance' = balance + transferred
    /\ UNCHANGED <<swaps, next_swap_id, events>>

cancel_swap(swap_id, caller) ==
    /\ LET entered == enter_reentrancy_guard(reentrancy_guard)
           checked == cancel_swap_checks(swaps, swap_id, caller)
       IN IF entered.res # "Ok"
          THEN /\ last' = Returned("cancel_swap", swap_id, entered.res, -1, <<>>)
               /\ stack' = stack
               /\ reentrancy_guard' = entered.guard
          ELSE IF checked # "Ok"
          THEN /\ last' = Returned("cancel_swap", swap_id, checked, -1, <<>>)
               /\ stack' = stack
               /\ reentrancy_guard' = exit_reentrancy_guard(entered.guard)
          ELSE /\ Depth < MaxDepth
               /\ last' = NoReturn
               /\ stack' = Append(stack,
                                  Frame("cancel_swap", swap_id, caller, 0,
                                        swaps[swap_id],
                                        cancel_swap_transfers(swaps[swap_id]),
                                        reentrancy_guard))
               /\ reentrancy_guard' = entered.guard
    /\ UNCHANGED <<swaps, next_swap_id, events, balance>>

\* ---------------------------------------------------------------- the host completes a transfer
\* env().transfer returns to the innermost suspended message, which goes on to
\* its next transfer, finishes, or gives up
TransferDone(host_ok) ==
    /\ Depth > 0
    /\ LET f == stack[Depth]
           moved == transfer_funds(host_ok)
           due == f.todo[Len(f.sent) + 1]
           sent == Append(f.sent, due)
           rest == SubSeq(stack, 1, Depth - 1)
       IN /\ host_ok => balance >= due.amount
          /\ balance' = IF host_ok THEN balance - due.amount
                        ELSE balance - Unspent(f.transferred, f.sent)
          /\ IF moved # "Ok"
             THEN /\ reentrancy_guard' = exit_reentrancy_guard(reentrancy_guard)
                  /\ stack' = rest
                  /\ last' = Returned(f.op, f.swap_id, moved, -1, f.sent)
                  /\ UNCHANGED <<swaps, events>>
             ELSE IF Len(sent) < Len(f.todo)
             THEN /\ stack' = [stack EXCEPT ![Depth].sent = sent]
                  /\ last' = NoReturn
                  /\ UNCHANGED <<swaps, events, reentrancy_guard>>
             ELSE /\ swaps' = IF f.op = "accept_swap"
                              THEN accept_swap_cleanup(swaps, f.swap_id)
                              ELSE cancel_swap_cleanup(swaps, f.swap_id)
                  /\ events' = IF f.op = "accept_swap"
                               THEN emit_swap_accepted(events, f.swap_id)
                               ELSE emit_swap_cancelled(events, f.swap_id)
                  /\ reentrancy_guard' = exit_reentrancy_guard(reentrancy_guard)
                  /\ stack' = rest
                  /\ last' = Returned(f.op, f.swap_id, "Ok", -1, sent)
    /\ UNCHANGED next_swap_id

Next ==
    \/ \E caller \in Parties, v \in Deposits, cp \in Parties, req \in Required :
          initiate_swap(caller, v, cp, req)
    \/ \E id \in SwapIds, caller \in Accounts, v \in Attached : accept_swap(id, caller, v)
    \/ \E id \in SwapIds, caller \in Accounts : cancel_swap(id, caller)
    \/ \E host_ok \in BOOLEAN : TransferDone(host_ok)

Spec == Init /\ [][Next]_vars

\* env().transfer is a call into the host that comes back: a message suspended
\* in a transfer is eventually resumed
TransferReturns == \E host_ok \in BOOLEAN : TransferDone(host_ok)

FairSpec == Spec /\ WF_vars(TransferReturns)

\* ---------------------------------------------------------------- observations
\* how often an event was emitted
Emitted(event) == CopiesIn(event, events)

\* how often a swap id was resolved, by either message
Resolutions(log, swap_id) ==
    CopiesIn(SwapAccepted(swap_id), log) + CopiesIn(SwapCancelled(swap_id), log)

\* the number of SwapInitiated events in a log
Initiations(log) ==
    BagCardinality([e \in {x \in BagToSet(log) : x.kind = "SwapInitiated"} |-> log[e]])

\* the step returns from the innermost suspended message
ReturnsFromFrame == Depth > 0 /\ Len(stack') < Depth

\* the step is a call of accept_swap or cancel_swap, with any arguments
GuardedCall ==
    \/ \E id \in SwapIds, c \in Accounts, v \in Attached : accept_swap(id, c, v)
    \/ \E id \in SwapIds, c \in Accounts : cancel_swap(id, c)

\* ---------------------------------------------------------------- claims

\* C1: for every swap id at most one resolving call ever succeeds, nested calls
\* included: no id has more than one SwapAccepted/SwapCancelled event in all, and
\* an accept_swap or cancel_swap returns Ok only for an id that had no such event
\* before and has exactly one after.
C1_ResolvedAtMostOnce ==
    [][ /\ \A id \in SwapIds : Resolutions(events', id) <= 1
        /\ (last'.op \in {"accept_swap", "cancel_swap"} /\ last'.res = "Ok")
              => /\ Resolutions(events, last'.swap_id) = 0
                 /\ Resolutions(events', last'.swap_id) = 1 ]_vars

\* a second resolving call on an id already accepted came back SwapNotFound
C1_Witness ==
    /\ last.op = "cancel_swap" /\ last.res = "SwapNotFound"
    /\ last.swap_id < next_swap_id
    /\ Emitted(SwapAccepted(last.swap_id)) = 1

\* C2: while an accept_swap or cancel_swap is suspended in a transfer, every call
\* of accept_swap or cancel_swap (any id, caller and value, also after an earlier
\* one was turned away) returns Reentrancy and leaves the mapping, the counter,
\* the guard, the log and the suspended messages as they were.
C2_NestedCallsRejected ==
    [][ (Depth > 0 /\ GuardedCall)
           => /\ last'.res = "Reentrancy"
              /\ reentrancy_guard /\ reentrancy_guard'
              /\ UNCHANGED <<swaps, next_swap_id, events, stack>> ]_vars

\* a nested call was turned away right after another nested call was
C2_Witness ==
    /\ Depth > 0 /\ last.res = "Reentrancy" /\ last.again
    /\ last.swap_id \in DOMAIN swaps

\* C3: a message that returns an error writes nothing: every step other than a
\* return of Ok leaves the mapping, the counter and the log as they were, and a
\* return of an error leaves the guard as it was when the message was called.
C3_ErrorsWriteNothing ==
    [][ /\ last'.res # "Ok" => UNCHANGED <<swaps, next_swap_id, events>>
        /\ last'.res \in Error
              => reentrancy_guard' = IF ReturnsFromFrame
                                     THEN stack[Depth].guard_before
                                     ELSE reentrancy_guard ]_vars

\* an accept_swap gave up at its second transfer, with an agreement in the mapping
C3_Witness ==
    /\ last.op = "accept_swap" /\ last.res = "InsufficientCounterpartyBalance"
    /\ Len(last.sent) = 1
    /\ last.swap_id \in DOMAIN swaps
    /\ ~reentrancy_guard

C5_AcceptEffects ==
    [][ (last'.op = "accept_swap" /\ last'.res = "Ok")
           => /\ ReturnsFromFrame
              /\ LET f == stack[Depth]
                     id == f.swap_id
                 IN /\ last'.swap_id = id
                    /\ id \in DOMAIN swaps
                    /\ f.swap = swaps[id]
                    /\ f.caller = swaps[id].counterparty
                    /\ f.transferred = swaps[id].counterparty_asset
                    /\ last'.sent =
                          << [to |-> swaps[id].initiator,
                              amount |-> swaps[id].counterparty_asset],
                             [to |-> swaps[id].counterparty,
                              amount |-> swaps[id].initiator_asset] >>
                    /\ swaps' = MapRemove(swaps, id)
                    /\ events' = events (+) SetToBag({SwapAccepted(id)}) ]_vars

\* alice's deposit of 2 for 1 from bob was accepted: alice got 1 and bob got 2
C5_Witness ==
    /\ last.op = "accept_swap" /\ last.res = "Ok"
    /\ last.sent = << [to |-> "alice", amount |-> 1], [to |-> "bob", amount |-> 2] >>
    /\ last.swap_id \notin DOMAIN swaps
    /\ Emitted(SwapAccepted(last.swap_id)) = 1

\* C6: a cancel_swap that returns Ok was called by the stored initiator, has
\* transferred initiator_asset to the initiator and nothing else, has removed the
\* Swap and has emitted one SwapCancelled for the id.
C6_CancelEffects ==
    [][ (last'.op = "cancel_swap" /\ last'.res = "Ok")
           => /\ ReturnsFromFrame
              /\ LET f == stack[Depth]
                     id == f.swap_id
                 IN /\ last'.swap_id = id
                    /\ id \in DOMAIN swaps
                    /\ f.swap = swaps[id]
                    /\ f.caller = swaps[id].initiator
                    /\ last'.sent =
                          << [to |-> swaps[id].initiator,
                              amount |-> swaps[id].initiator_asset] >>
                    /\ swaps' = MapRemove(swaps, id)
                    /\ events' = events (+) SetToBag({SwapCancelled(id)}) ]_vars

\* alice withdrew her deposit of 2 from a proposal to bob
C6_Witness ==
    /\ last.op = "cancel_swap" /\ last.res = "Ok"
    /\ last.sent = << [to |-> "alice", amount |-> 2] >>
    /\ last.swap_id \notin DOMAIN swaps
    /\ Emitted(SwapCancelled(last.swap_id)) = 1

\* C7: called while no guarded message is in progress, accept_swap on a live
\* Swap by any caller other than its counterparty, with any value, returns
\* NotAuthorized, starts no transfer and leaves the mapping as it was.
C7_AcceptNeedsCounterparty ==
    [][ \A id \in SwapIds, c \in Accounts, v \in Attached :
          ( /\ Depth = 0
            /\ id \in DOMAIN swaps
            /\ c # swaps[id].counterparty
            /\ accept_swap(id, c, v) )
             => /\ last'.op = "accept_swap" /\ last'.res = "NotAuthorized"
                /\ last'.sent = <<>>
                /\ UNCHANGED <<swaps, stack, events>> ]_vars

\* an accept_swap on a live Swap came back NotAuthorized
C7_Witness ==
    /\ Depth = 0
    /\ last.op = "accept_swap" /\ last.res = "NotAuthorized"
    /\ last.swap_id \in DOMAIN swaps
    /\ swaps[last.swap_id].initiator # swaps[last.swap_id].counterparty

\* C8: called while no guarded message is in progress, cancel_swap on a live
\* Swap by any caller other than its initiator returns NotAuthorized, starts no
\* transfer and leaves the mapping as it was.
C8_CancelNeedsInitiator ==
    [][ \A id \in SwapIds, c \in Accounts :
          ( /\ Depth = 0
            /\ id \in DOMAIN swaps
            /\ c # swaps[id].initiator
            /\ cancel_swap(id, c) )
             => /\ last'.op = "cancel_swap" /\ last'.res = "NotAuthorized"
                /\ last'.sent = <<>>
                /\ UNCHANGED <<swaps, stack, events>> ]_vars

\* a cancel_swap on a live Swap came back NotAuthorized
C8_Witness ==
    /\ Depth = 0
    /\ last.op = "cancel_swap" /\ last.res = "NotAuthorized"
    /\ last.swap_id \in DOMAIN swaps
    /\ swaps[last.swap_id].initiator # swaps[last.swap_id].counterparty

\* C9: called while no guarded message is in progress, accept_swap on a live
\* Swap by its counterparty with a value other than counterparty_asset, smaller
\* or larger, returns InsufficientCounterpartyBalance, starts no transfer and
\* leaves the mapping as it was.
C9_AcceptNeedsExactValue ==
    [][ \A id \in SwapIds, v \in Attached :
          ( /\ Depth = 0
            /\ id \in DOMAIN swaps
            /\ v # swaps[id].counterparty_asset
            /\ accept_swap(id, swaps[id].counterparty, v) )
             => /\ last'.op = "accept_swap"
                /\ last'.res = "InsufficientCounterpartyBalance"
                /\ last'.sent = <<>>
                /\ UNCHANGED <<swaps, stack, events>> ]_vars

\* an accept_swap that made no transfer came back InsufficientCounterpartyBalance
C9_Witness ==
    /\ Depth = 0
    /\ last.op = "accept_swap" /\ last.res = "InsufficientCounterpartyBalance"
    /\ last.sent = <<>>
    /\ last.swap_id \in DOMAIN swaps
    /\ {0, 2} \subseteq Attached \ {swaps[last.swap_id].counterparty_asset}

\* C10: an initiate_swap that returns Ok returns the number of SwapInitiated
\* events emitted before it, an id no event was emitted for, and advances the
\* counter by exactly 1; no other step changes the counter.
C10_FreshIds ==
    [][ /\ (last'.op = "initiate_swap" /\ last'.res = "Ok")
              => /\ last'.ret = Initiations(events)
                 /\ CopiesIn(SwapInitiated(last'.ret), events) = 0
                 /\ Resolutions(events, last'.ret) = 0
                 /\ next_swap_id' = next_swap_id + 1
        /\ ~(last'.op = "initiate_swap" /\ last'.res = "Ok")
              => next_swap_id' = next_swap_id ]_vars

\* the second proposal got id 1 although id 0 had been resolved before it
C10_Witness ==
    /\ last.op = "initiate_swap" /\ last.res = "Ok" /\ last.ret = 1
    /\ DOMAIN swaps = {1}
    /\ Resolutions(events, 0) = 1

\* C11: initiate_swap with no value attached returns InsufficientInitiatorBalance
\* for every counterparty, amount asked and value of the counter (the exhausted
\* one too), and leaves the mapping, the counter and the log as they were; and
\* every Swap in the mapping has initiator_asset > 0.
C11_NoEmptyDeposit ==
    [][ /\ \A c \in Accounts, cp \in Accounts, req \in Required \cup Attached :
              initiate_swap(c, 0, cp, req)
                 => /\ last'.op = "initiate_swap"
                    /\ last'.res = "InsufficientInitiatorBalance"
                    /\ UNCHANGED <<swaps, next_swap_id, events>>
        /\ \A id \in DOMAIN swaps' : swaps'[id].initiator_asset > 0 ]_vars

\* a proposal without a deposit was refused although the counter was exhausted
C11_Witness ==
    /\ last.op = "initiate_swap" /\ last.res = "InsufficientInitiatorBalance"
    /\ next_swap_id = U32Max
    /\ swaps # << >>

\* C12: called while no guarded message is in progress, accept_swap and
\* cancel_swap on an id that was resolved before, or that was never issued,
\* return SwapNotFound for every caller and value, whatever was proposed since,
\* and change nothing.
C12_ResolvedIdsAreGone ==
    [][ \A id \in SwapIds :
          ( /\ Depth = 0
            /\ Resolutions(events, id) >= 1 \/ CopiesIn(SwapInitiated(id), events) = 0
            /\ \/ \E c \in Accounts, v \in Attached : accept_swap(id, c, v)
               \/ \E c \in Accounts : cancel_swap(id, c) )
             => /\ last'.res = "SwapNotFound"
                /\ last'.swap_id = id
                /\ UNCHANGED <<swaps, next_swap_id, events, stack, reentrancy_guard>> ]_vars

\* an accept_swap on id 0, accepted before, came back SwapNotFound while the
\* Swap proposed after it was live
C12_Witness ==
    /\ Depth = 0
    /\ last.op = "accept_swap" /\ last.res = "SwapNotFound" /\ last.swap_id = 0
    /\ Emitted(SwapAccepted(0)) = 1
    /\ DOMAIN swaps = {1}

\* C13: an id has a Swap in the mapping exactly when a SwapInitiated was emitted
\* for it and no SwapAccepted or SwapCancelled; every id in the mapping is below
\* next_swap_id; and no id is initiated twice, resolved twice, or resolved
\* without having been initiated.
C13_LiveIffUnresolved ==
    \A id \in SwapIds :
       /\ id \in DOMAIN swaps
             <=> (CopiesIn(SwapInitiated(id), events) = 1 /\ Resolutions(events, id) = 0)
       /\ id \in DOMAIN swaps => id < next_swap_id
       /\ CopiesIn(SwapInitiated(id), events) <= 1
       /\ Resolutions(events, id) <= CopiesIn(SwapInitiated(id), events)
       /\ CopiesIn(SwapInitiated(id), events) = 1 <=> id < next_swap_id

\* id 0 has been through the mapping and is gone, id 1 is in it
C13_Witness ==
    /\ next_swap_id = 2
    /\ DOMAIN swaps = {1}
    /\ Resolutions(events, 0) = 1
    /\ Depth = 0

\* C14: initiate_swap stores the Swap under the id it returns with the caller,
\* counterparty and amounts as submitted and touches no other entry; a Swap in
\* the mapping is never changed, and it leaves the mapping only in the step in
\* which an accept_swap or cancel_swap on its own id returns Ok.
C14_SwapsAreFramed ==
    [][ /\ \A id \in DOMAIN swaps :
              IF id \in DOMAIN swaps'
              THEN swaps'[id] = swaps[id]
              ELSE /\ last'.op \in {"accept_swap", "cancel_swap"}
                   /\ last'.res = "Ok"
                   /\ last'.swap_id = id
        /\ \A c \in Accounts, v \in Deposits, cp \in Accounts, req \in Required :
              (initiate_swap(c, v, cp, req) /\ last'.res = "Ok")
                 => /\ DOMAIN swaps' = DOMAIN swaps \cup {last'.ret}
                    /\ last'.ret \notin DOMAIN swaps
                    /\ swaps'[last'.ret] = Swap(c, cp, v, req) ]_vars

\* of two proposals the second was resolved first and the first after it
C14_Witness ==
    /\ last.op \in {"accept_swap", "cancel_swap"} /\ last.res = "Ok"
    /\ last.swap_id = 0
    /\ Resolutions(events, 1) = 1
    /\ swaps = << >>

\* C15: with the counter at its maximum, initiate_swap with a deposit returns
\* SwapIdOverflow and leaves the mapping, the counter and the log as they were;
\* the counter never exceeds the maximum and never goes back, and the maximum
\* itself is never returned as an id.
C15_CounterExhausted ==
    [][ /\ \A c \in Accounts, v \in Deposits \ {0}, cp \in Accounts, req \in Required :
              (next_swap_id = U32Max /\ initiate_swap(c, v, cp, req))
                 => /\ last'.op = "initiate_swap" /\ last'.res = "SwapIdOverflow"
                    /\ last'.ret = -1
                    /\ UNCHANGED <<swaps, next_swap_id, events>>
        /\ next_swap_id <= next_swap_id' /\ next_swap_id' <= U32Max
        /\ last'.ret # U32Max
        /\ U32Max \notin DOMAIN swaps'
        /\ CopiesIn(SwapInitiated(U32Max), events') = 0 ]_vars

\* a proposal with a deposit was refused for lack of ids
C15_Witness ==
    /\ last.op = "initiate_swap" /\ last.res = "SwapIdOverflow"
    /\ next_swap_id = U32Max
    /\ Initiations(events) = U32Max

\* C16: accept_swap returns the error of the first check that fails, in the
\* order Reentrancy, SwapNotFound, NotAuthorized, InsufficientCounterpartyBalance,
\* and goes on to its transfers only when none fails; cancel_swap does the same
\* with Reentrancy, SwapNotFound, NotAuthorized.
C16_CheckOrder ==
    [][ /\ \A id \in SwapIds, c \in Accounts, v \in Attached :
              accept_swap(id, c, v)
                 => last'.res =
                       IF reentrancy_guard THEN "Reentrancy"
                       ELSE IF id \notin DOMAIN swaps THEN "SwapNotFound"
                       ELSE IF c # swaps[id].counterparty THEN "NotAuthorized"
                       ELSE IF v # swaps[id].counterparty_asset
                            THEN "InsufficientCounterpartyBalance"
                       ELSE ""
        /\ \A id \in SwapIds, c \in Accounts :
              cancel_swap(id, c)
                 => last'.res =
                       IF reentrancy_guard THEN "Reentrancy"
                       ELSE IF id \notin DOMAIN swaps THEN "SwapNotFound"
                       ELSE IF c # swaps[id].initiator THEN "NotAuthorized"
                       ELSE "" ]_vars

\* a call nested in a transfer named an id that is not in the mapping and was
\* answered Reentrancy
C16_Witness ==
    /\ Depth > 0
    /\ last.op = "accept_swap" /\ last.res = "Reentrancy"
    /\ last.swap_id \notin DOMAIN swaps

\* C17: the guard is set exactly while an accept_swap or cancel_swap is
\* suspended in a transfer, so it is clear whenever the outermost message has
\* returned, by whatever path; a call made while nothing is suspended never
\* returns Reentrancy; and a set guard is eventually cleared.
C17_GuardReleased ==
    /\ [](reentrancy_guard <=> Depth > 0)
    /\ [][ /\ Depth = 0 => last'.res # "Reentrancy"
           /\ (last'.op \in {"accept_swap", "cancel_swap"} /\ Len(stack') = 0)
                 => ~reentrancy_guard' ]_vars
    /\ (reentrancy_guard ~> ~reentrancy_guard)

\* cancel_swap gave up at its transfer, after a nested call had been turned
\* away or not, and the guard is clear
C17_Witness ==
    /\ Depth = 0 /\ ~reentrancy_guard
    /\ last.op = "cancel_swap" /\ last.res = "InsufficientCounterpartyBalance"
    /\ last.swap_id \in DOMAIN swaps

\* C18: initiate_swap does not look at the guard: called with a deposit while a
\* message is suspended in a transfer, and with ids left, it returns Ok with
\* next_swap_id as the id, stores the submitted Swap and leaves the guard set
\* and the suspended message as it was; when the suspended message then returns
\* Ok it removes the Swap of its own id and no other.
C18_NestedProposal ==
    [][ /\ \A c \in Accounts, v \in Deposits \ {0}, cp \in Accounts, req \in Required :
              (Depth > 0 /\ next_swap_id < U32Max /\ initiate_swap(c, v, cp, req))
                 => /\ last'.op = "initiate_swap" /\ last'.res = "Ok"
                    /\ last'.ret = next_swap_id
                    /\ swaps' = MapInsert(swaps, next_swap_id, Swap(c, cp, v, req))
                    /\ reentrancy_guard /\ reentrancy_guard'
                    /\ stack' = stack
        /\ (ReturnsFromFrame /\ last'.res = "Ok")
              => /\ DOMAIN swaps' = DOMAIN swaps \ {stack[Depth].swap_id}
                 /\ \A id \in DOMAIN swaps' : swaps'[id] = swaps[id] ]_vars

\* a proposal made from within the transfer of a message on id 0 got id 1, and
\* the guard is still set
C18_Witness ==
    /\ Depth = 1 /\ stack[1].swap_id = 0
    /\ last.op = "initiate_swap" /\ last.res = "Ok" /\ last.ret = 1
    /\ DOMAIN swaps = {0, 1}
    /\ reentrancy_guard


\* ---------------------------------------------------------------- C19
\* C19: an accept_swap that returns an error has delivered no funds: neither
\* the initiator nor the counterparty was paid by it.
C19_FailedAcceptPaysNobody ==
    [][ (last'.op = "accept_swap" /\ last'.res \in Error) => last'.sent = << >> ]_vars

\* ---------------------------------------------------------------- C20
RECURSIVE Custody(_)
\* the deposits of the live Swaps, summed
Custody(m) ==
    IF DOMAIN m = {} THEN 0
    ELSE LET id == CHOOSE x \in DOMAIN m : TRUE
         IN m[id].initiator_asset + Custody(MapRemove(m, id))

\* C20: between messages the contract holds at least the deposits of all live
\* Swaps, and a cancel_swap that reached its refund finds the refund's amount
\* in the contract.
C20_Solvent ==
    /\ Depth = 0 => balance >= Custody(swaps)
    /\ \A i \in 1..Depth :
          (i = Depth /\ stack[i].op = "cancel_swap")
             => balance >= stack[i].swap.initiator_asset

C20_Witness ==
    /\ Depth = 1 /\ stack[1].op = "cancel_swap"
    /\ DOMAIN swaps = {0, 1}
    /\ Custody(swaps) = 4
    /\ balance = 4

====
